---- MODULE Spec2Model ----
(***************************************************************************)
(* Model of src/pipeline_orchestrator.py: the PipelineOrchestrator class   *)
(* (command runner, the four sub-task phases, the build phase with its     *)
(* artifact selector, stager, build invoker and metrics calculator) and    *)
(* the main() workflow that drives it.                                     *)
(*                                                                         *)
(* File names and log lines are sequences of one-character strings, so     *)
(* the regular expression of the selector and the path functions of the    *)
(* stager are computed character by character.                             *)
(***************************************************************************)
EXTENDS Integers, Sequences, FiniteSets, TLC

VARIABLES
    pc,                 \* position of the control flow
    mode,               \* the mode string read by main ("" before it is read)
    phase,              \* the sub-task phase being executed ("none" outside one)
    idx,                \* loop position in the phase's sub-task list / build targets
    plan,               \* phase name -> the sub-task list passed to the phase
    execution_summary,  \* self.execution_summary
    calls,              \* history: every run_command invocation of a sub-task, with its exit code
    result,             \* phase name -> "none" | "ok" | "failed" (what the phase returned)
    entered,            \* history: the phases entered, in order
    exited,             \* the process has terminated
    exit_status,        \* its exit status (meaningful when exited)
    log,                \* <project>/logs/transformation.log: [exists, lines]
    tree,               \* the files below <project>/work/transformed
    tool_found,         \* shutil.which(build_tool) resolves
    successful_artifacts, \* the selector's result
    copied_count,       \* the stager's result
    staged,             \* the files copied below <project>/target/artifacts
    build_calls,        \* history: every build step invocation, with its exit code
    metrics,            \* <<>> until computed, then <<the metrics dictionary>>
    printed,            \* what main has printed at the end: metrics and closing message
    now,                \* int(time.time()), counted from the start of the run
    log_dir,            \* the runlogs directory: [exists, files]
    interrupt,          \* "none", or how a KeyboardInterrupt ended the run
    build_returns       \* history: what each call of _execute_build returned

vars == <<pc, mode, phase, idx, plan, execution_summary, calls, result, entered,
          exited, exit_status, log, tree, tool_found, successful_artifacts,
          copied_count, staged, build_calls, metrics, printed,
          now, log_dir, interrupt, build_returns>>

(***************************************************************************)
(* Bounds                                                                  *)
(***************************************************************************)
\* exit codes an external command may return: 0..MaxRC
MaxRC == 2
\* longest sub-task list handed to a single phase call
MaxTasks == 3
\* longest line of an enumerated single-line transformation log
MaxLineLen == 7
\* most lines of a transformation log built from the sample lines
MaxLogLines == 3
\* last clock second of a run
MaxTime == 1
\* longest sequence of selected artifacts handed to the stager alone
MaxSelected == 2
\* most files of a source tree handed to the stager alone
MaxTreeFiles == 2
\* largest count handed to the metrics calculator alone
MaxCount == 10

ExitCodes == 0..MaxRC

(***************************************************************************)
(* Small helpers                                                           *)
(***************************************************************************)
Max(S) == CHOOSE x \in S : \A y \in S : y <= x
Min(S) == CHOOSE x \in S : \A y \in S : x <= y

SeqsUpTo(S, n) == UNION {[1..k -> S] : k \in 0..n}

(***************************************************************************)
(* Characters                                                              *)
(***************************************************************************)
\* the characters Python's \s matches that occur in the modelled lines
SpaceChars == {" ", "\t"}
\* the characters Python's \w matches that occur in the modelled lines
WordChars == {"a", "b", "c", "d", "e", "f", "g", "h", "o", "r", "s", "t", "x",
              "A", "D", "T", "0", "2", "_"}

\* str.lower() on one character
LowerChar(c) == CASE c = "A" -> "a"
                  [] c = "D" -> "d"
                  [] c = "T" -> "t"
                  [] OTHER   -> c

lower_asis(str) == str
\* str.lower()
lower(str) == [k \in 1..Len(str) |-> LowerChar(str[k])]

\* positions lo..hi of str all hold characters of S (true of an empty range)
AllIn(str, lo, hi, S) == \A k \in lo..hi : str[k] \in S
NoneIs(str, lo, hi, c) == \A k \in lo..hi : str[k] # c

\* `sub in str` of Python
Contains(str, sub) ==
    \E k \in 1..(Len(str) - Len(sub) + 1) : SubSeq(str, k, k + Len(sub) - 1) = sub

\* str.rfind(c), 1-based, 0 when c does not occur
rfind(str, c) ==
    IF \E k \in 1..Len(str) : str[k] = c
    THEN Max({k \in 1..Len(str) : str[k] = c})
    ELSE 0

\* os.path.basename
basename(p) == SubSeq(p, rfind(p, "/") + 1, Len(p))

\* os.path.splitext(p)[0]: cut at the last dot of the last path component,
\* unless only dots precede it in that component
splitext0(p) ==
    LET sepIndex == rfind(p, "/")
        dotIndex == rfind(p, ".")
    IN  IF dotIndex > sepIndex
           /\ \E k \in (sepIndex + 1)..(dotIndex - 1) : p[k] # "."
        THEN SubSeq(p, 1, dotIndex - 1)
        ELSE p

(***************************************************************************)
(* The selector's pattern  \|\s*([^|]+\.\w+)\s*\|\s*0\s*\|                  *)
(***************************************************************************)
\* the rest of the pattern after the group, \s*\|\s*0\s*\| , matches right
\* after position e
TailMatch(line, e) ==
    \E p1 \in (e + 1)..Len(line) :
        /\ line[p1] = "|"
        /\ AllIn(line, e + 1, p1 - 1, SpaceChars)
        /\ \E z \in (p1 + 1)..Len(line) :
              /\ line[z] = "0"
              /\ AllIn(line, p1 + 1, z - 1, SpaceChars)
              /\ \E p2 \in (z + 1)..Len(line) :
                    /\ line[p2] = "|"
                    /\ AllIn(line, z + 1, p2 - 1, SpaceChars)

\* the pattern matches with its first "|" at s, a blanks taken by the first
\* \s*, the group's last dot at d and the group ending at e
MatchAt(line, s, a, d, e) ==
    /\ line[s] = "|"
    /\ AllIn(line, s + 1, s + a, SpaceChars)
    /\ s + a + 1 <= d - 1
    /\ NoneIs(line, s + a + 1, d - 1, "|")
    /\ line[d] = "."
    /\ d + 1 <= e
    /\ AllIn(line, d + 1, e, WordChars)
    /\ TailMatch(line, e)

MatchesFrom(line, s) ==
    /\ line[s] = "|"
    /\ \E a \in 0..(Len(line) - s) :
          /\ AllIn(line, s + 1, s + a, SpaceChars)
          /\ \E d \in (s + a + 2)..Len(line) :
                /\ line[d] = "."
                /\ \E e \in (d + 1)..Len(line) : MatchAt(line, s, a, d, e)

search_anywhere(line) ==
    LET padded == <<"|">> \o line
        n      == Len(padded)
        ends   == {e \in 1..n : \E s \in 1..n : \E a \in 0..(n - s) :
                      \E d \in (s + a + 2)..e : MatchAt(padded, s, a, d, e)}
    IN  IF ends = {} THEN <<>>
        ELSE LET e == Min(ends)
                 b == Max({x \in 1..e : padded[x] = "|" \/ padded[x] \in SpaceChars})
             IN  <<SubSeq(padded, b + 1, e)>>
\* pattern.search(line): <<>> for no match, else <<match.group(1)>>.
\* The scan takes the leftmost start; from it the greedy quantifiers are
\* tried longest first: \s*, then [^|]+, then \w+.
search(line) ==
    LET n      == Len(line)
        starts == {s \in 1..n : MatchesFrom(line, s)}
    IN  IF starts = {} THEN <<>>
        ELSE LET s == Min(starts)
                 a == Max({x \in 0..(n - s) :
                             \E d \in (s + x + 2)..n : \E e \in (d + 1)..n :
                                 MatchAt(line, s, x, d, e)})
                 d == Max({x \in (s + a + 2)..n :
                             \E e \in (x + 1)..n : MatchAt(line, s, a, x, e)})
                 e == Max({x \in (d + 1)..n : MatchAt(line, s, a, d, x)})
             IN  <<SubSeq(line, s + a + 1, e)>>

(***************************************************************************)
(* PipelineOrchestrator: the pure parts of the build phase                 *)
(***************************************************************************)
RECURSIVE matched_lines(_)
matched_lines(lines) ==
    IF lines = <<>> THEN <<>>
    ELSE search(Head(lines)) \o matched_lines(Tail(lines))

\* _identify_successful_artifacts
_identify_successful_artifacts(lg) ==
    IF ~lg.exists THEN <<>> ELSE matched_lines(lg.lines)

\* the set comprehension of _copy_artifacts
successful_basenames(artifacts) ==
    {lower(splitext0(basename(artifacts[k]))) : k \in 1..Len(artifacts)}

copied_files_all(artifacts, tr) ==
    {f \in tr : \/ successful_basenames(artifacts) = {}
                \/ lower(splitext0(f.file)) \in successful_basenames(artifacts)}
\* the files of the source tree that _copy_artifacts copies
copied_files(artifacts, tr) ==
    {f \in tr : lower(splitext0(f.file)) \in successful_basenames(artifacts)}

\* _copy_artifacts: the returned count
_copy_artifacts(artifacts, tr) == Cardinality(copied_files(artifacts, tr))

\* the extensions _calculate_metrics looks for
RecognizedExts == {<<".", "s", "r", "c">>, <<".", "d", "a", "t">>, <<".", "c", "f", "g">>}

\* the count of _calculate_metrics
RECURSIVE count_total(_)
count_total(lines) ==
    IF lines = <<>> THEN 0
    ELSE (IF Contains(Head(lines), <<"|">>)
             /\ \E ext \in RecognizedExts : Contains(Head(lines), ext)
          THEN 1 ELSE 0) + count_total(Tail(lines))

rate_unscaled(count, total) ==
    IF total # 0 THEN [num |-> count, den |-> total]
    ELSE [num |-> 0, den |-> 1]
\* count / total * 100 as the exact fraction num/den; 0 when total is 0
rate(count, total) ==
    IF total # 0 THEN [num |-> count * 100, den |-> total]
    ELSE [num |-> 0, den |-> 1]

\* _calculate_metrics
_calculate_metrics(lg, artifacts, copied) ==
    LET total_artifacts == IF lg.exists THEN count_total(lg.lines) ELSE 0
    IN  [total_artifacts        |-> total_artifacts,
         successful_transforms  |-> Len(artifacts),
         copied_artifacts       |-> copied,
         transform_success_rate |-> rate(Len(artifacts), total_artifacts),
         build_success_rate     |-> rate(copied, total_artifacts)]

(***************************************************************************)
(* Sample inputs: file names, log lines, logs and source trees             *)
(***************************************************************************)
a_dat   == <<"a", ".", "d", "a", "t">>
b_dat   == <<"b", ".", "d", "a", "t">>
c_cfg   == <<"c", ".", "c", "f", "g">>
x_txt   == <<"x", ".", "t", "x", "t">>
A_DAT   == <<"A", ".", "D", "A", "T">>
a_cfg   == <<"a", ".", "c", "f", "g">>
other_cfg == <<"o", "t", "h", "e", "r", ".", "c", "f", "g">>

\* "<name> | <count> |", the layout of the specification's example
BareLine(name, count) == name \o <<" ", "|", " ", count, " ", "|">>
\* "| <name> | <count> |", the layout the pattern's comment gives
PipedLine(name, count) == <<"|", " ">> \o BareLine(name, count)

SampleLines == {PipedLine(a_dat, "0"), PipedLine(b_dat, "2"), PipedLine(c_cfg, "0"),
                PipedLine(x_txt, "0"),
                BareLine(a_dat, "0"), BareLine(b_dat, "2"), BareLine(c_cfg, "0")}

PipedExample == <<PipedLine(a_dat, "0"), PipedLine(b_dat, "2"), PipedLine(c_cfg, "0")>>
BareExample  == <<BareLine(a_dat, "0"), BareLine(b_dat, "2"), BareLine(c_cfg, "0")>>

AbsentLog == [exists |-> FALSE, lines |-> <<>>]
LogOf(lines) == [exists |-> TRUE, lines |-> lines]

\* the transformation logs the transform tools may leave behind
MainLogs == {AbsentLog, LogOf(<<>>), LogOf(PipedExample), LogOf(BareExample),
             LogOf(<<PipedLine(a_dat, "0"), PipedLine(a_dat, "0")>>),
             LogOf(<<PipedLine(x_txt, "0")>>)}

File(rel, name) == [rel |-> rel, file |-> name]

\* the source trees below work/transformed
MainTrees == {{},
              {File("sub", A_DAT), File("sub", other_cfg)},
              {File(".", a_dat), File(".", a_cfg), File("sub", c_cfg), File(".", x_txt)}}

(***************************************************************************)
(* The phases and their sub-task lists                                     *)
(***************************************************************************)
TaskPhases == {"extract", "validate", "analyze", "transform"}
Phases == TaskPhases \cup {"build"}

\* the lists main passes to the phases
file_types      == <<"source-files", "config-files", "data-files", "metadata">>
validate_types  == <<"source-files", "config-files", "data-files">>
analysis_types  == <<"dependencies", "patterns", "metrics", "quality">>
transformations == <<<<"source-files", "target-format">>,
                     <<"config-files", "target-config">>,
                     <<"data-files", "target-schema">>>>

MainPlan == [p \in TaskPhases |->
                CASE p = "extract"   -> file_types
                  [] p = "validate"  -> validate_types
                  [] p = "analyze"   -> analysis_types
                  [] p = "transform" -> transformations]

Descriptor_raw(p, task) == task
\* what a phase appends to its summary entry for a completed sub-task
Descriptor(p, task) ==
    IF p = "transform" THEN <<task[1], "->", task[2]>> ELSE task

Descriptors(p, tasks) == [k \in 1..Len(tasks) |-> Descriptor(p, tasks[k])]

\* the targets of _execute_build
BuildTargets == <<"clean", "build", "install">>

EmptySummary == [p \in Phases |-> <<>>]

(***************************************************************************)
(* State after PipelineOrchestrator.__init__, before main reads its input  *)
(***************************************************************************)
Fresh ==
    /\ mode = ""
    /\ phase = "none"
    /\ idx = 1
    /\ execution_summary = EmptySummary
    /\ calls = <<>>
    /\ result = [p \in Phases |-> "none"]
    /\ entered = <<>>
    /\ exited = FALSE
    /\ exit_status = 0
    /\ tree = {}
    /\ tool_found = FALSE
    /\ successful_artifacts = <<>>
    /\ copied_count = 0
    /\ staged = {}
    /\ build_calls = <<>>
    /\ metrics = <<>>
    /\ printed = <<>>
    /\ now = 0
    /\ interrupt = "none"
    /\ build_returns = <<>>

\* the name of a log file: <stem>_<int(time.time())>.log
LogName(stem, t) == [stem |-> stem, ts |-> t]

\* the stem run_command derives from "python tools/pipeline/<verb>-<task>.py"
\* (the command has two words, so the whole command is taken, its blanks
\* replaced, then basename and splitext applied); sub-task names hold no
\* blank, slash or dot
ScriptStem(p, task) == <<p, task>>

\* the stem of _execute_build: <build_tool>_<target>, main passes 'ant'
BuildStem(target) == <<"ant", target>>

AbsentDir == [exists |-> FALSE, files |-> {}]
LogFile(name, run) == [name |-> name, run |-> run]

\* what an earlier run may have left of the runlogs directory
EarlierDirs ==
    {AbsentDir,
     [exists |-> TRUE, files |-> {}],
     [exists |-> TRUE,
      files |-> {LogFile(LogName(ScriptStem("extract", "source-files"), 0), "earlier"),
                 LogFile(LogName(BuildStem("install"), 1), "earlier")}]}

\* os.makedirs(self.log_dir, exist_ok=True)
makedirs(dir) == [dir EXCEPT !.exists = TRUE]

\* the shell's `> "<log_file>"`: creates or truncates the file
WriteLog(dir, name) ==
    [dir EXCEPT !.files = {f \in @ : f.name # name} \cup {LogFile(name, "current")}]

CleanLogs_keep(dir) == makedirs(dir)
\* main: shutil.rmtree(log_dir) if it exists, then os.makedirs
CleanLogs(dir) == [exists |-> TRUE, files |-> {}]

Init ==
    /\ Fresh
    /\ pc = "main_start"
    /\ plan = MainPlan
    /\ log = AbsentLog
    /\ log_dir \in EarlierDirs

buildVars == <<log, tree, tool_found, successful_artifacts, copied_count, staged,
               build_calls, metrics, printed>>
runVars == <<now, log_dir, interrupt, build_returns>>
taskVars == <<plan, execution_summary, calls>>

\* sys.exit(code), or main returning (code 0)
Exit(code) ==
    /\ exited' = TRUE
    /\ exit_status' = code
    /\ pc' = "exited"

\* the call of a sub-task phase
EnterPhase(p) ==
    /\ pc' = "phase"
    /\ phase' = p
    /\ idx' = 1
    /\ entered' = Append(entered, p)

(***************************************************************************)
(* extract_phase, validate_phase, analyze_phase, transform_phase           *)
(***************************************************************************)
SubtaskFailed_eq1(rc) == rc = 1
\* `if rc != 0` after run_command
SubtaskFailed(rc) == rc # 0

Record_front(entry, d) == <<d>> \o entry
\* self.execution_summary[phase].append(descriptor)
Record(entry, d) == Append(entry, d)

\* one iteration of the phase's loop: run_command, then either the early
\* return False or the append to the summary
RunSubtask ==
    /\ pc = "phase"
    /\ idx <= Len(plan[phase])
    /\ \E rc \in ExitCodes :
          LET task     == plan[phase][idx]
              log_file == LogName(ScriptStem(phase, task), now)
          IN
          /\ calls' = Append(calls, [phase |-> phase, task |-> task, rc |-> rc,
                                     log |-> log_file,
                                     dir_exists |-> makedirs(log_dir).exists])
          /\ log_dir' = WriteLog(makedirs(log_dir), log_file)
          /\ IF SubtaskFailed(rc)
             THEN /\ result' = [result EXCEPT ![phase] = "failed"]
                  /\ pc' = "phase_returned"
                  /\ UNCHANGED <<execution_summary, idx>>
             ELSE /\ execution_summary' =
                        [execution_summary EXCEPT
                            ![phase] = Record(@, Descriptor(phase, task))]
                  /\ idx' = idx + 1
                  /\ UNCHANGED <<result, pc>>
    /\ now' \in now..MaxTime
    /\ UNCHANGED <<mode, phase, plan, entered, exited, exit_status, buildVars,
                   interrupt, build_returns>>

\* the loop is exhausted: print the summary, return True
PhaseComplete ==
    /\ pc = "phase"
    /\ idx > Len(plan[phase])
    /\ result' = [result EXCEPT ![phase] = "ok"]
    /\ pc' = "phase_returned"
    /\ UNCHANGED <<mode, phase, idx, taskVars, entered, exited, exit_status, buildVars,
                   runVars>>

(***************************************************************************)
(* build_phase                                                             *)
(***************************************************************************)
IdentifySuccessful ==
    /\ pc = "build_identify"
    /\ successful_artifacts' = _identify_successful_artifacts(log)
    /\ pc' = "build_copy"
    /\ UNCHANGED <<mode, phase, idx, taskVars, result, entered, exited, exit_status,
                   log, tree, tool_found, copied_count, staged, build_calls,
                   metrics, printed, runVars>>

CopyArtifacts ==
    /\ pc = "build_copy"
    /\ staged' = copied_files(successful_artifacts, tree)
    /\ copied_count' = _copy_artifacts(successful_artifacts, tree)
    /\ pc' = "build_which"
    /\ UNCHANGED <<mode, phase, idx, taskVars, result, entered, exited, exit_status,
                   log, tree, tool_found, successful_artifacts, build_calls,
                   metrics, printed, runVars>>

\* _execute_build up to its loop: shutil.which and the early return False
ResolveBuildTool ==
    /\ pc = "build_which"
    /\ IF tool_found
       THEN /\ pc' = "build_step"
            /\ idx' = 1
            /\ UNCHANGED <<result, build_returns>>
       ELSE /\ pc' = "build_metrics"
            /\ result' = [result EXCEPT !["build"] = "failed"]
            /\ build_returns' = Append(build_returns, [skipped |-> TRUE, failed |-> FALSE, value |-> FALSE])
            /\ UNCHANGED idx
    /\ UNCHANGED <<mode, phase, taskVars, entered, exited, exit_status, buildVars,
                   now, log_dir, interrupt>>

StepFailed_eq1(rc) == rc = 1
\* `if rc != 0` in the loop of _execute_build
StepFailed(rc) == rc # 0

\* one iteration of the loop of _execute_build
BuildStep ==
    /\ pc = "build_step"
    /\ idx <= Len(BuildTargets)
    /\ \E rc \in ExitCodes :
          LET log_file == LogName(BuildStem(BuildTargets[idx]), now) IN
          \* without the directory the shell cannot open the log file and
          \* returns non-zero without running the tool
          /\ ~log_dir.exists => rc # 0
          /\ build_calls' = Append(build_calls, [target |-> BuildTargets[idx], rc |-> rc,
                                                 log |-> log_file,
                                                 dir_exists |-> log_dir.exists])
          /\ log_dir' = IF log_dir.exists THEN WriteLog(log_dir, log_file) ELSE log_dir
          /\ IF StepFailed(rc)
             THEN /\ result' = [result EXCEPT !["build"] = "failed"]
                  /\ build_returns' = Append(build_returns,
                                             [skipped |-> FALSE, failed |-> TRUE, value |-> FALSE])
                  /\ pc' = "build_metrics"
                  /\ UNCHANGED idx
             ELSE IF idx = Len(BuildTargets)
             THEN /\ result' = [result EXCEPT !["build"] = "ok"]
                  /\ build_returns' = Append(build_returns,
                                             [skipped |-> FALSE, failed |-> FALSE, value |-> TRUE])
                  /\ pc' = "build_metrics"
                  /\ UNCHANGED idx
             ELSE /\ idx' = idx + 1
                  /\ UNCHANGED <<result, pc, build_returns>>
    /\ now' \in now..MaxTime
    /\ UNCHANGED <<mode, phase, taskVars, entered, exited, exit_status,
                   log, tree, tool_found, successful_artifacts, copied_count, staged,
                   metrics, printed, interrupt>>

CalculateMetrics ==
    /\ pc = "build_metrics"
    /\ metrics' = <<_calculate_metrics(log, successful_artifacts, copied_count)>>
    /\ pc' = "build_returned"
    /\ UNCHANGED <<mode, phase, idx, taskVars, result, entered, exited, exit_status,
                   log, tree, tool_found, successful_artifacts, copied_count, staged,
                   build_calls, printed, runVars>>

(***************************************************************************)
(* main                                                                    *)
(***************************************************************************)
Modes == {"1", "2", "3", "4", "x"}

\* os.path.isdir(project_dir) is false
DirectoryNotFound ==
    /\ pc = "main_start"
    /\ Exit(1)
    /\ UNCHANGED <<mode, phase, idx, taskVars, result, entered, buildVars, runVars>>

RunsWorkflow_not4(m) == m # "4"
\* `mode in ('1', '3')` or `mode in ('2', '3')`
RunsWorkflow(m) == m \in {"1", "2", "3"}

\* the mode is read; mode 4 exits; otherwise the runlogs directory is
\* cleaned, modes 1, 2 and 3 start with extract_phase and any other mode
\* skips both workflows
SelectMode ==
    /\ pc = "main_start"
    /\ \E m \in Modes :
          /\ mode' = m
          /\ IF m = "4"
             THEN Exit(0) /\ UNCHANGED <<phase, idx, entered, log_dir>>
             ELSE /\ log_dir' = CleanLogs(log_dir)
                  /\ IF RunsWorkflow(m)
                     THEN EnterPhase("extract") /\ UNCHANGED <<exited, exit_status>>
                     ELSE /\ pc' = "main_end"
                          /\ UNCHANGED <<phase, idx, entered, exited, exit_status>>
    /\ UNCHANGED <<taskVars, result, buildVars, now, interrupt, build_returns>>

NextPhase_skip(p, m) ==
    CASE p = "extract"   -> "validate"
      [] p = "validate"  -> IF m # "1" THEN "transform" ELSE "analyze"
      [] p = "analyze"   -> IF m = "1" THEN "return" ELSE "transform"
      [] p = "transform" -> "build"
\* the phase main calls after phase p returned True: "return" ends main
NextPhase(p, m) ==
    CASE p = "extract"   -> "validate"
      [] p = "validate"  -> IF m = "2" THEN "transform" ELSE "analyze"
      [] p = "analyze"   -> IF m = "1" THEN "return" ELSE "transform"
      [] p = "transform" -> "build"

AbortsOn_lax(p, r) == r = "failed" /\ p # "validate"
\* `if not orchestrator.<p>_phase(...): sys.exit(1)`
AbortsOn(p, r) == r = "failed"

\* main looks at what the phase returned
AfterPhase ==
    /\ pc = "phase_returned"
    /\ IF AbortsOn(phase, result[phase])
       THEN /\ Exit(1)
            /\ UNCHANGED <<phase, idx, entered, log, tree, tool_found>>
       ELSE LET next == NextPhase(phase, mode) IN
            IF next = "return"
            THEN /\ Exit(0)
                 /\ UNCHANGED <<phase, idx, entered, log, tree, tool_found>>
            ELSE IF next = "build"
            THEN /\ pc' = "build_identify"
                 /\ phase' = "build"
                 /\ entered' = Append(entered, "build")
                 /\ log' \in MainLogs
                 /\ tree' \in MainTrees
                 /\ tool_found' \in BOOLEAN
                 /\ UNCHANGED <<idx, exited, exit_status>>
            ELSE /\ EnterPhase(next)
                 /\ UNCHANGED <<exited, exit_status, log, tree, tool_found>>
    /\ UNCHANGED <<mode, taskVars, result, successful_artifacts, copied_count, staged,
                   build_calls, metrics, printed, runVars>>

ReportMetrics_onSuccess ==
    /\ pc = "build_returned"
    /\ printed' = IF result["build"] = "ok"
                  THEN <<[metrics |-> metrics[1], message |-> "completed successfully"]>>
                  ELSE printed
    /\ pc' = "main_end"
    /\ UNCHANGED <<mode, phase, idx, taskVars, result, entered, exited, exit_status,
                   log, tree, tool_found, successful_artifacts, copied_count, staged,
                   build_calls, metrics, runVars>>

\* build_phase returned: print the metrics and the closing message
ReportMetrics ==
    /\ pc = "build_returned"
    /\ printed' = <<[metrics |-> metrics[1],
                     message |-> IF result["build"] = "ok"
                                 THEN "completed successfully"
                                 ELSE "completed with warnings"]>>
    /\ pc' = "main_end"
    /\ UNCHANGED <<mode, phase, idx, taskVars, result, entered, exited, exit_status,
                   log, tree, tool_found, successful_artifacts, copied_count, staged,
                   build_calls, metrics, runVars>>

\* the end of the try block: main returns
MainEnd ==
    /\ pc = "main_end"
    /\ Exit(0)
    /\ UNCHANGED <<mode, phase, idx, taskVars, result, entered, buildVars, runVars>>

Next ==
    \/ DirectoryNotFound
    \/ SelectMode
    \/ RunSubtask
    \/ PhaseComplete
    \/ AfterPhase
    \/ IdentifySuccessful
    \/ CopyArtifacts
    \/ ResolveBuildTool
    \/ BuildStep
    \/ CalculateMetrics
    \/ ReportMetrics
    \/ MainEnd

Spec == Init /\ [][Next]_vars

(***************************************************************************)
(* main under user interrupts                                              *)
(***************************************************************************)
\* how the interpreter ends on a KeyboardInterrupt nobody catches: status 1,
\* or death by SIGINT, which a shell reports as 130
UncaughtStatuses == {1, 130}

\* Ctrl-C at a prompt or while the runlogs directory is cleaned, lines
\* 397-464: outside the try block, the traceback is printed
InterruptAtPrompt ==
    /\ pc = "main_start"
    /\ interrupt' = "uncaught"
    /\ exited' = TRUE
    /\ exit_status' \in UncaughtStatuses
    /\ pc' = "exited"
    /\ UNCHANGED <<mode, phase, idx, taskVars, result, entered, buildVars,
                   now, log_dir, build_returns>>

\* Ctrl-C inside the try block, no command running: the handler prints the
\* warning and calls sys.exit(1)
InterruptBetween ==
    /\ pc \notin {"main_start", "exited", "idle"}
    /\ interrupt' = "caught"
    /\ Exit(1)
    /\ UNCHANGED <<mode, phase, idx, taskVars, result, entered, buildVars,
                   now, log_dir, build_returns>>

\* Ctrl-C while a sub-task or build step runs: the command was launched and
\* its log file opened, subprocess.call re-raises, the handler exits
InterruptInFlight ==
    /\ \/ /\ pc = "phase"
          /\ idx <= Len(plan[phase])
          /\ log_dir' = WriteLog(makedirs(log_dir),
                                 LogName(ScriptStem(phase, plan[phase][idx]), now))
       \/ /\ pc = "build_step"
          /\ log_dir.exists
          /\ log_dir' = WriteLog(log_dir, LogName(BuildStem(BuildTargets[idx]), now))
    /\ interrupt' = "caught"
    /\ Exit(1)
    /\ UNCHANGED <<mode, phase, idx, taskVars, result, entered, buildVars,
                   now, build_returns>>

NextInt ==
    \/ Next
    \/ InterruptAtPrompt
    \/ InterruptBetween
    \/ InterruptInFlight

SpecInt == Init /\ [][NextInt]_vars

(***************************************************************************)
(* One phase called on a fresh orchestrator with an arbitrary list         *)
(***************************************************************************)
TaskNames == {"t1", "t2"}
TaskPairs == {<<"t1", "u1">>, <<"t2", "u2">>}
TaskLists(p) == SeqsUpTo(IF p = "transform" THEN TaskPairs ELSE TaskNames, MaxTasks)

InitPhase ==
    /\ Fresh
    /\ pc = "idle"
    /\ plan = [p \in TaskPhases |-> <<>>]
    /\ log = AbsentLog
    /\ log_dir = AbsentDir

CallPhase ==
    /\ pc = "idle"
    /\ \E p \in TaskPhases : \E tasks \in TaskLists(p) :
          /\ plan' = [plan EXCEPT ![p] = tasks]
          /\ EnterPhase(p)
    /\ UNCHANGED <<mode, execution_summary, calls, result, exited, exit_status, buildVars,
                   runVars>>

NextPhaseCall ==
    \/ CallPhase
    \/ RunSubtask
    \/ PhaseComplete

SpecPhase == InitPhase /\ [][NextPhaseCall]_vars

(***************************************************************************)
(* Histories                                                               *)
(***************************************************************************)
\* the run_command invocations made by phase p, in order
CallsOf(p) == SelectSeq(calls, LAMBDA c : c.phase = p)
TasksOf(cs) == [k \in 1..Len(cs) |-> cs[k].task]
SomeCallFailed == \E k \in 1..Len(calls) : calls[k].rc # 0
SomeStepFailed == \E k \in 1..Len(build_calls) : build_calls[k].rc # 0
Entered(p) == \E k \in 1..Len(entered) : entered[k] = p
BuildPcs == {"build_identify", "build_copy", "build_which", "build_step",
             "build_metrics", "build_returned"}

(***************************************************************************)
(* C1: a phase runs its sub-tasks in list order and stops at the first     *)
(* non-zero exit status: when the k-th sub-task fails the phase returns    *)
(* failure, its summary entry holds the descriptors of the first k-1       *)
(* sub-tasks in list order and nothing after the k-th was invoked; when    *)
(* none fails it returns success and the entry holds every descriptor.     *)
(***************************************************************************)
C1_PhaseFailFast ==
    \A p \in TaskPhases :
        LET cs == CallsOf(p)
            n  == Len(cs)
        IN  /\ n <= Len(plan[p])
            /\ TasksOf(cs) = SubSeq(plan[p], 1, n)
            /\ \A k \in 1..(n - 1) : cs[k].rc = 0
            /\ (n > 0 /\ cs[n].rc # 0) =>
                    /\ result[p] = "failed"
                    /\ execution_summary[p] = Descriptors(p, SubSeq(plan[p], 1, n - 1))
            /\ result[p] = "failed" => (n > 0 /\ cs[n].rc # 0)
            /\ result[p] = "ok" =>
                    /\ n = Len(plan[p])
                    /\ n = 0 \/ cs[n].rc = 0
                    /\ execution_summary[p] = Descriptors(p, plan[p])

\* the second of three sub-tasks failed
C1_Witness ==
    \E p \in TaskPhases :
        /\ pc = "phase_returned"
        /\ result[p] = "failed"
        /\ Len(plan[p]) = 3
        /\ Len(CallsOf(p)) = 2
        /\ execution_summary[p] = <<Descriptor(p, plan[p][1])>>

(***************************************************************************)
(* C2: once a sub-task of extract, validate, analyze or transform has      *)
(* returned a non-zero status, no further sub-task, phase, staging or      *)
(* build step is started, and the only step left is the exit with          *)
(* status 1.                                                               *)
(***************************************************************************)
C2_AbortedState ==
    SomeCallFailed =>
        /\ calls[Len(calls)].rc # 0
        /\ \A k \in 1..(Len(calls) - 1) : calls[k].rc = 0
        /\ entered[Len(entered)] = calls[Len(calls)].phase
        /\ pc \in {"phase_returned", "exited"}
        /\ staged = {} /\ successful_artifacts = <<>>
        /\ build_calls = <<>>
        /\ metrics = <<>> /\ printed = <<>>
        /\ exited => exit_status = 1

C2_FailFastAbort ==
    /\ []C2_AbortedState
    /\ [][(SomeCallFailed /\ ~exited) =>
            (exited' /\ exit_status' = 1 /\ calls' = calls /\ entered' = entered)]_vars

\* a full-pipeline run aborted by a failing transform sub-task
C2_Witness ==
    /\ exited /\ exit_status = 1
    /\ mode = "3"
    /\ SomeCallFailed
    /\ calls[Len(calls)].phase = "transform"

(***************************************************************************)
(* C3: the process exit status is 1 whenever a phase of the run failed,    *)
(* the build phase with a non-zero clean/build/install step included, and  *)
(* it is 0 only when every phase entered succeeded.                        *)
(***************************************************************************)
C3_ExitStatusReflectsFailure ==
    (exited /\ mode \in {"1", "2", "3"}) =>
        /\ SomeCallFailed => exit_status = 1
        /\ SomeStepFailed => exit_status = 1
        /\ exit_status = 0 =>
              \A k \in 1..Len(entered) :
                  IF entered[k] = "build" THEN ~SomeStepFailed
                  ELSE result[entered[k]] = "ok"

(***************************************************************************)
(* C4 as claimed: a phase is entered only after the phase immediately      *)
(* preceding it in the order extract, validate, analyze, transform, build  *)
(* has completed successfully; transform is never entered unless analyze   *)
(* succeeded.                                                              *)
(***************************************************************************)
Preceding(p) ==
    CASE p = "validate"  -> "extract"
      [] p = "analyze"   -> "validate"
      [] p = "transform" -> "analyze"
      [] p = "build"     -> "transform"

C4_PrecedingPhaseSucceeded ==
    \A k \in 1..Len(entered) :
        entered[k] # "extract" => result[Preceding(entered[k])] = "ok"

(***************************************************************************)
(* C4 as amended: a phase is entered only after the phase preceding it in  *)
(* the selected mode's plan has completed successfully: extract, validate, *)
(* analyze in mode 1; extract, validate, transform, build in mode 2, where *)
(* analyze is never entered; all five in mode 3.                           *)
(***************************************************************************)
ModePlan(m) ==
    CASE m = "1" -> <<"extract", "validate", "analyze">>
      [] m = "2" -> <<"extract", "validate", "transform", "build">>
      [] m = "3" -> <<"extract", "validate", "analyze", "transform", "build">>
      [] OTHER   -> <<>>

C4_ModePlanOrder ==
    /\ Len(entered) <= Len(ModePlan(mode))
    /\ entered = SubSeq(ModePlan(mode), 1, Len(entered))
    /\ \A k \in 2..Len(entered) : result[entered[k - 1]] = "ok"

\* mode 2 has entered transform without analyze
C4_Witness ==
    /\ mode = "2"
    /\ Entered("transform")
    /\ result["validate"] = "ok"
    /\ result["analyze"] = "none"

(***************************************************************************)
(* C5: each phase's summary entry is exactly the descriptors of that       *)
(* phase's run_command invocations that returned 0, in invocation order;   *)
(* a sub-task that returned non-zero or was never invoked is not recorded. *)
(***************************************************************************)
ZeroCallsOf(p) == SelectSeq(calls, LAMBDA c : c.phase = p /\ c.rc = 0)

C5_RecordedOnlyOnZeroStatus ==
    \A p \in Phases :
        execution_summary[p] = Descriptors(p, TasksOf(ZeroCallsOf(p)))

\* a phase has recorded sub-tasks and then one failed with status 2
C5_Witness ==
    \E p \in TaskPhases :
        /\ Len(execution_summary[p]) >= 2
        /\ calls[Len(calls)].phase = p
        /\ calls[Len(calls)].rc = 2

(***************************************************************************)
(* C6: with every external command succeeding, modes 1 and 3 end with the  *)
(* same extract, validate and analyze entries; mode 3 also ends with       *)
(* non-empty transform and build entries, mode 1 with both empty and       *)
(* without a transform sub-task or build step invoked.                     *)
(***************************************************************************)
C6_ModesAgreeThroughAnalyze ==
    (exited /\ exit_status = 0 /\ ~SomeCallFailed /\ mode \in {"1", "3"}
       /\ (mode = "3" => result["build"] = "ok")) =>
        /\ \A p \in {"extract", "validate", "analyze"} :
              execution_summary[p] = MainPlan[p]
        /\ mode = "3" => /\ execution_summary["transform"] # <<>>
                         /\ execution_summary["build"] # <<>>
        /\ mode = "1" => /\ execution_summary["transform"] = <<>>
                         /\ execution_summary["build"] = <<>>
                         /\ CallsOf("transform") = <<>>
                         /\ build_calls = <<>>

(***************************************************************************)
(* C7: with the build tool resolved, clean, build, install run in that     *)
(* order, each only after the previous one returned 0; the first non-zero  *)
(* step ends the sequence with failure reported; success is reported only  *)
(* when all three returned 0.                                              *)
(***************************************************************************)
C7_BuildStepsFailFast ==
    LET n == Len(build_calls) IN
    /\ n > 0 => tool_found
    /\ [k \in 1..n |-> build_calls[k].target] = SubSeq(<<"clean", "build", "install">>, 1, n)
    /\ \A k \in 1..(n - 1) : build_calls[k].rc = 0
    /\ (n > 0 /\ build_calls[n].rc # 0) => (result["build"] = "failed" /\ pc # "build_step")
    /\ result["build"] = "ok" <=> (n = 3 /\ \A k \in 1..n : build_calls[k].rc = 0)
    /\ (tool_found /\ result["build"] = "failed") => (n > 0 /\ build_calls[n].rc # 0)

\* clean returned 0, build returned 2, install was not started
C7_Witness ==
    /\ Len(build_calls) = 2
    /\ build_calls[2].target = "build"
    /\ build_calls[2].rc = 2
    /\ result["build"] = "failed"
    /\ exited

(***************************************************************************)
(* C8: when the build tool is not resolved, no build step is invoked, the  *)
(* run is not aborted, and the final report still carries the metrics:     *)
(* successful_transforms is the number of selected artifacts and           *)
(* copied_artifacts the number of files staged.                            *)
(***************************************************************************)
C8_SkippedBuildKeepsMetrics ==
    (Entered("build") /\ ~tool_found) =>
        /\ build_calls = <<>>
        /\ pc \in BuildPcs \cup {"main_end", "exited"}
        /\ pc \in {"main_end", "exited"} =>
              /\ printed # <<>>
              /\ printed[1].metrics.successful_transforms = Len(successful_artifacts)
              /\ printed[1].metrics.copied_artifacts = Cardinality(staged)
              /\ printed[1].metrics = _calculate_metrics(log, successful_artifacts,
                                                         Cardinality(staged))
        /\ exited => exit_status = 0

\* the build was skipped after two files were staged, and the run has ended
C8_Witness ==
    /\ Entered("build") /\ ~tool_found
    /\ exited
    /\ printed # <<>>
    /\ printed[1].metrics.copied_artifacts = 2
    /\ printed[1].metrics.successful_transforms = 2

(***************************************************************************)
(* C10: with the transformation log absent the build phase continues:      *)
(* nothing is selected, nothing is staged whatever the source tree holds,  *)
(* the three counts and both rates are 0, the build steps are still        *)
(* attempted, and the run does not fail for that reason.                   *)
(***************************************************************************)
ZeroRate == [num |-> 0, den |-> 1]

C10_AbsentLogIsNothingStaged ==
    (Entered("build") /\ ~log.exists) =>
        /\ successful_artifacts = <<>>
        /\ staged = {}
        /\ copied_count = 0
        /\ metrics # <<>> =>
              metrics[1] = [total_artifacts        |-> 0,
                            successful_transforms  |-> 0,
                            copied_artifacts       |-> 0,
                            transform_success_rate |-> ZeroRate,
                            build_success_rate     |-> ZeroRate]
        /\ (tool_found /\ pc \in {"build_metrics", "build_returned", "main_end", "exited"}) =>
              /\ build_calls # <<>>
              /\ ~SomeStepFailed => result["build"] = "ok"
        /\ exited => (exit_status = 0 /\ printed # <<>>)

\* no log, a non-empty source tree, and the build ran to its end
C10_Witness ==
    /\ Entered("build") /\ ~log.exists
    /\ tree # {}
    /\ metrics # <<>>
    /\ Len(build_calls) = 3
    /\ result["build"] = "ok"
    /\ exited

(***************************************************************************)
(* The selector alone, on a given transformation log                       *)
(***************************************************************************)
Alphabet == {"|", " ", ".", "a", "0"}

\* absent, up to MaxLogLines sample lines, or any one line over Alphabet
SelLogs ==
    {AbsentLog}
        \cup {LogOf(ls) : ls \in SeqsUpTo(SampleLines, MaxLogLines)}
        \cup {LogOf(<<l>>) : l \in SeqsUpTo(Alphabet, MaxLineLen)}

InitSel ==
    /\ Fresh
    /\ pc = "build_identify"
    /\ plan = MainPlan
    /\ log \in SelLogs
    /\ log_dir = AbsentDir

NextSel == IdentifySuccessful

SpecSel == InitSel /\ [][NextSel]_vars

(***************************************************************************)
(* Records of a log line, read field by field                              *)
(***************************************************************************)
NonBlank(line, lo, hi) == {k \in lo..hi : line[k] \notin SpaceChars}

\* the field lo..hi holds a file name with an extension; blanks around it
\* do not count, but a name that starts with its only dot needs one blank
\* before it
NamesFile(line, lo, hi) ==
    LET nb == NonBlank(line, lo, hi) IN
    /\ nb # {}
    /\ LET f    == Min(nb)
           l    == Max(nb)
           dots == {k \in f..l : line[k] = "."}
       IN  /\ dots # {}
           /\ Max(dots) < l
           /\ \A k \in (Max(dots) + 1)..l : line[k] \in WordChars
           /\ Max(dots) > f \/ f > lo

FileName(line, lo, hi) ==
    LET nb == NonBlank(line, lo, hi)
        f  == Min(nb)
        l  == Max(nb)
    IN  IF line[f] = "." /\ \A k \in (f + 1)..l : line[k] # "."
        THEN SubSeq(line, f - 1, l)
        ELSE SubSeq(line, f, l)

\* the field lo..hi is the single character 0, blanks aside
IsZeroField(line, lo, hi) ==
    \E z \in lo..hi : line[z] = "0" /\ NonBlank(line, lo, hi) = {z}

PipesAfter(line, p) == {q \in (p + 1)..Len(line) : line[q] = "|"}

\* a name field opens right after position p (a pipe, or 0 for the start of
\* the line) and is followed by a zero field closed by a pipe
RecordAt(line, p) ==
    /\ PipesAfter(line, p) # {}
    /\ LET q == Min(PipesAfter(line, p)) IN
       /\ PipesAfter(line, q) # {}
       /\ NamesFile(line, p + 1, q - 1)
       /\ IsZeroField(line, q + 1, Min(PipesAfter(line, q)) - 1)

\* the name of the first record of the line among those opening at `opens`
FirstRecord(line, opens) ==
    LET recs == {p \in opens : RecordAt(line, p)} IN
    IF recs = {} THEN <<>>
    ELSE LET p == Min(recs) IN
         <<FileName(line, p + 1, Min(PipesAfter(line, p)) - 1)>>

Pipes(line) == {p \in 1..Len(line) : line[p] = "|"}

RECURSIVE RecordsOf(_, _)
RecordsOf(lines, fromStart) ==
    IF lines = <<>> THEN <<>>
    ELSE FirstRecord(Head(lines),
                     Pipes(Head(lines)) \cup (IF fromStart THEN {0} ELSE {}))
            \o RecordsOf(Tail(lines), fromStart)

(***************************************************************************)
(* C9 as claimed: the selector returns, in file order and with duplicates  *)
(* kept, the file names of the records "name | 0 |" whose error count is   *)
(* 0, the name being the first field of the line or any later one; for    *)
(* the lines "a.dat | 0 |", "b.dat | 2 |", "c.cfg | 0 |" it returns         *)
(* a.dat, c.cfg.                                                           *)
(***************************************************************************)
C9_SelectsZeroErrorRecords ==
    (pc = "build_copy" /\ \A k \in 1..Len(log.lines) : log.lines[k] \in SampleLines) =>
        /\ successful_artifacts = RecordsOf(log.lines, TRUE)
        /\ log.lines = BareExample => successful_artifacts = <<a_dat, c_cfg>>

(***************************************************************************)
(* C9 as amended: the selector returns, in file order and with duplicates  *)
(* kept, one name per line: that of the first field that follows a pipe,   *)
(* holds a file name with an extension and is followed by a field holding  *)
(* exactly 0 and closed by a pipe.  A name at the start of the line, with  *)
(* no pipe before it, is not selected: the lines "| a.dat | 0 |",          *)
(* "| b.dat | 2 |", "| c.cfg | 0 |" give a.dat, c.cfg and the lines        *)
(* "a.dat | 0 |", "b.dat | 2 |", "c.cfg | 0 |" give nothing.               *)
(***************************************************************************)
C9_SelectsPipedZeroErrorRecords ==
    pc = "build_copy" =>
        /\ successful_artifacts = RecordsOf(log.lines, FALSE)
        /\ log.lines = PipedExample => successful_artifacts = <<a_dat, c_cfg>>
        /\ log.lines = BareExample => successful_artifacts = <<>>

\* the piped example has been read, the middle record dropped
C9_Witness ==
    /\ pc = "build_copy"
    /\ log = LogOf(PipedExample)
    /\ successful_artifacts = <<a_dat, c_cfg>>

(***************************************************************************)
(* The stager alone, on given selected artifacts and a given source tree   *)
(***************************************************************************)
dot_a   == <<".", "a">>
bare_a  == <<"a">>
s_a_dat == <<"s", "/">> \o a_dat

StageArtifacts == {a_dat, A_DAT, a_cfg, other_cfg, dot_a, bare_a, s_a_dat}
StageFiles == {File(rel, name) : rel \in {".", "sub"},
                                 name \in {a_dat, A_DAT, a_cfg, other_cfg, dot_a, bare_a}}
StageTrees == {tr \in SUBSET StageFiles : Cardinality(tr) <= MaxTreeFiles}

InitStage ==
    /\ pc = "build_copy"
    /\ mode = ""
    /\ phase = "build"
    /\ idx = 1
    /\ plan = MainPlan
    /\ execution_summary = EmptySummary
    /\ calls = <<>>
    /\ result = [p \in Phases |-> "none"]
    /\ entered = <<"build">>
    /\ exited = FALSE
    /\ exit_status = 0
    /\ log = AbsentLog
    /\ tree \in StageTrees
    /\ tool_found = FALSE
    /\ successful_artifacts \in SeqsUpTo(StageArtifacts, MaxSelected)
    /\ copied_count = 0
    /\ staged = {}
    /\ build_calls = <<>>
    /\ metrics = <<>>
    /\ printed = <<>>
    /\ now = 0
    /\ log_dir = AbsentDir
    /\ interrupt = "none"
    /\ build_returns = <<>>

NextStage == CopyArtifacts

SpecStage == InitStage /\ [][NextStage]_vars

(***************************************************************************)
(* Stems of file names, read from the end of the name                      *)
(***************************************************************************)
Front(str) == SubSeq(str, 1, Len(str) - 1)

\* the part of the name before its last dot, empty when it has no dot
RECURSIVE BeforeLastDot(_)
BeforeLastDot(str) ==
    IF str = <<>> THEN <<>>
    ELSE IF str[Len(str)] = "." THEN Front(str)
    ELSE BeforeLastDot(Front(str))

\* the name without its extension; a name that only has dots before its
\* last dot has no extension
StemOf(str) ==
    IF \E k \in 1..Len(BeforeLastDot(str)) : BeforeLastDot(str)[k] # "."
    THEN BeforeLastDot(str)
    ELSE str

\* the last component of a path
RECURSIVE LastComponent(_)
LastComponent(str) ==
    IF str = <<>> \/ str[Len(str)] = "/" THEN <<>>
    ELSE Append(LastComponent(Front(str)), str[Len(str)])

CaseFolds == {<<"A", "a">>, <<"D", "d">>, <<"T", "t">>}
SameFolded(x, y) ==
    /\ Len(x) = Len(y)
    /\ \A k \in 1..Len(x) : x[k] = y[k] \/ <<x[k], y[k]>> \in CaseFolds
                                        \/ <<y[k], x[k]>> \in CaseFolds

(***************************************************************************)
(* C11: the stager copies a source file, to the same relative path, if     *)
(* and only if its extension-stripped basename equals, letter case aside,  *)
(* the extension-stripped basename of a selected artifact, and returns     *)
(* the number of files copied; selected a.dat with sub/A.DAT and           *)
(* sub/other.cfg copies sub/A.DAT only and returns 1.                      *)
(***************************************************************************)
C11_StagesByFoldedStem ==
    pc = "build_which" =>
        /\ staged = {f \in tree :
                        \E k \in 1..Len(successful_artifacts) :
                            SameFolded(StemOf(f.file),
                                       StemOf(LastComponent(successful_artifacts[k])))}
        /\ copied_count = Cardinality(staged)
        /\ (successful_artifacts = <<a_dat>>
              /\ tree = {File("sub", A_DAT), File("sub", other_cfg)}) =>
                 (staged = {File("sub", A_DAT)} /\ copied_count = 1)

\* the example of the claim has been staged
C11_Witness ==
    /\ pc = "build_which"
    /\ successful_artifacts = <<a_dat>>
    /\ tree = {File("sub", A_DAT), File("sub", other_cfg)}
    /\ staged = {File("sub", A_DAT)}
    /\ copied_count = 1

(***************************************************************************)
(* The metrics calculator alone, on given counts                           *)
(***************************************************************************)
\* a log with t lines the calculator counts, followed by u lines it does not
CountedLog(t, u) ==
    LogOf([k \in 1..(t + u) |-> IF k <= t THEN PipedLine(b_dat, "2")
                                          ELSE PipedLine(x_txt, "0")])

MetricLogs == {AbsentLog} \cup {CountedLog(t, u) : t \in 0..MaxCount, u \in 0..1}

InitMetrics ==
    /\ pc = "build_metrics"
    /\ mode = ""
    /\ phase = "build"
    /\ idx = 1
    /\ plan = MainPlan
    /\ execution_summary = EmptySummary
    /\ calls = <<>>
    /\ result = [p \in Phases |-> "none"]
    /\ entered = <<"build">>
    /\ exited = FALSE
    /\ exit_status = 0
    /\ log \in MetricLogs
    /\ tree = {}
    /\ tool_found = FALSE
    /\ \E n \in 0..MaxCount : successful_artifacts = [k \in 1..n |-> a_dat]
    /\ copied_count \in 0..MaxCount
    /\ staged = {}
    /\ build_calls = <<>>
    /\ metrics = <<>>
    /\ printed = <<>>
    /\ now = 0
    /\ log_dir = AbsentDir
    /\ interrupt = "none"
    /\ build_returns = <<>>

NextMetrics == CalculateMetrics

SpecMetrics == InitMetrics /\ [][NextMetrics]_vars

(***************************************************************************)
(* C12: the calculator returns the three counts unchanged, T being the     *)
(* number of counted log lines; with T > 0 the rates are S/T*100 and       *)
(* C/T*100 (T=10, S=8, C=6 gives 80 and 60), and with T = 0 both rates     *)
(* are 0 whatever S and C are.                                             *)
(***************************************************************************)
\* the fraction r equals n / t * 100
IsPercentOf(r, n, t) == r.den # 0 /\ r.num * t = n * 100 * r.den

C12_RatesFromCounts ==
    pc = "build_returned" =>
        LET m == metrics[1]
            T == Cardinality({k \in 1..Len(log.lines) :
                                 log.lines[k] = PipedLine(b_dat, "2")})
            S == Len(successful_artifacts)
            C == copied_count
        IN  /\ m.total_artifacts = T
            /\ m.successful_transforms = S
            /\ m.copied_artifacts = C
            /\ T > 0 => /\ IsPercentOf(m.transform_success_rate, S, T)
                        /\ IsPercentOf(m.build_success_rate, C, T)
            /\ T = 0 => /\ m.transform_success_rate.num = 0
                        /\ m.build_success_rate.num = 0
            /\ (T = 10 /\ S = 8 /\ C = 6) =>
                  /\ m.transform_success_rate.num = 80 * m.transform_success_rate.den
                  /\ m.build_success_rate.num = 60 * m.build_success_rate.den

\* the example of the claim has been computed
C12_Witness ==
    /\ pc = "build_returned"
    /\ metrics[1].total_artifacts = 10
    /\ metrics[1].successful_transforms = 8
    /\ metrics[1].copied_artifacts = 6
    /\ metrics[1].transform_success_rate.num = 80 * metrics[1].transform_success_rate.den

(***************************************************************************)
(* C13: within one run every command writes to a log file whose name       *)
(* differs from the log file name of every other command of that run,      *)
(* whatever the sub-task lists and the timing.                             *)
(***************************************************************************)
LogNames ==
    [k \in 1..Len(calls) |-> calls[k].log]
        \o [k \in 1..Len(build_calls) |-> build_calls[k].log]

C13_LogNamesUnique ==
    \A i, j \in 1..Len(LogNames) : i # j => LogNames[i] # LogNames[j]

(***************************************************************************)
(* C14: a run that goes on to its workflows empties the runlogs directory  *)
(* before its first external command, so from then on the directory        *)
(* exists and holds exactly the log files written by the current run,      *)
(* never one of an earlier run.                                            *)
(***************************************************************************)
C14_OnlyCurrentLogs ==
    /\ (calls # <<>> \/ build_calls # <<>>) => mode \notin {"", "4"}
    /\ mode \notin {"", "4"} =>
          /\ log_dir.exists
          /\ \A f \in log_dir.files : f.run = "current"
          /\ log_dir.files = {LogFile(LogNames[k], "current") : k \in 1..Len(LogNames)}

\* the run has written a log under the name an earlier run had used
C14_Witness ==
    /\ mode = "3"
    /\ Len(calls) >= 2
    /\ LogFile(LogName(ScriptStem("extract", "source-files"), 0), "current") \in log_dir.files

(***************************************************************************)
(* C15: a user interrupt delivered at any point of the run, before the     *)
(* first phase included, is caught at the top level: the run ends with     *)
(* the interrupt warning and exit status 1.                                *)
(***************************************************************************)
C15_InterruptCaught ==
    interrupt # "none" =>
        /\ exited
        /\ interrupt = "caught"
        /\ exit_status = 1

(***************************************************************************)
(* Public operations in any order on one orchestrator instance             *)
(***************************************************************************)
MaxOps == 2

OpsLists(p) == {l \in TaskLists(p) : Len(l) <= 1}
OpsLogs == {AbsentLog, LogOf(PipedExample)}
OpsTrees == {{}, {File("sub", A_DAT), File("sub", other_cfg)}}

\* PipelineOrchestrator(project_dir): the runlogs directory is not created
InitOps ==
    /\ Fresh
    /\ pc = "idle"
    /\ plan = [p \in TaskPhases |-> <<>>]
    /\ log = AbsentLog
    /\ log_dir = AbsentDir

\* extract_phase, validate_phase, analyze_phase or transform_phase is called
CallTaskPhase ==
    /\ pc = "idle"
    /\ Len(entered) < MaxOps
    /\ \E p \in TaskPhases : \E tasks \in OpsLists(p) :
          /\ plan' = [plan EXCEPT ![p] = tasks]
          /\ EnterPhase(p)
    /\ UNCHANGED <<mode, execution_summary, calls, result, exited, exit_status, buildVars,
                   runVars>>

\* build_phase is called; the log, the tree and the PATH are as they are
CallBuildPhase ==
    /\ pc = "idle"
    /\ Len(entered) < MaxOps
    /\ pc' = "build_identify"
    /\ phase' = "build"
    /\ entered' = Append(entered, "build")
    /\ log' \in OpsLogs
    /\ tree' \in OpsTrees
    /\ tool_found' \in BOOLEAN
    /\ UNCHANGED <<mode, idx, taskVars, result, exited, exit_status,
                   successful_artifacts, copied_count, staged, build_calls, metrics,
                   printed, runVars>>

\* the operation returns to its caller
ReturnToCaller ==
    /\ pc \in {"phase_returned", "build_returned"}
    /\ pc' = "idle"
    /\ UNCHANGED <<mode, phase, idx, taskVars, result, entered, exited, exit_status,
                   buildVars, runVars>>

NextOps ==
    \/ CallTaskPhase
    \/ CallBuildPhase
    \/ ReturnToCaller
    \/ RunSubtask
    \/ PhaseComplete
    \/ IdentifySuccessful
    \/ CopyArtifacts
    \/ ResolveBuildTool
    \/ BuildStep
    \/ CalculateMetrics

SpecOps == InitOps /\ [][NextOps]_vars

(***************************************************************************)
(* build_phase called repeatedly, the runlogs directory present            *)
(***************************************************************************)
InitBuild ==
    /\ Fresh
    /\ pc = "idle"
    /\ plan = MainPlan
    /\ log = AbsentLog
    /\ log_dir = makedirs(AbsentDir)

NextBuild ==
    \/ CallBuildPhase
    \/ ReturnToCaller
    \/ IdentifySuccessful
    \/ CopyArtifacts
    \/ ResolveBuildTool
    \/ BuildStep
    \/ CalculateMetrics

SpecBuild == InitBuild /\ [][NextBuild]_vars

(***************************************************************************)
(* C16: what the Build Invoker returns when the build tool cannot be       *)
(* resolved (a skip) differs from what it returns when a clean, build or   *)
(* install step ran and returned non-zero (a failure), so that its caller  *)
(* can tell the two apart.                                                 *)
(***************************************************************************)
C16_SkipDistinctFromFailure ==
    \A i, j \in 1..Len(build_returns) :
        /\ build_returns[i].skipped
        /\ build_returns[j].failed
        => build_returns[i].value # build_returns[j].value

(***************************************************************************)
(* C18: whatever public operations are called on an instance that starts   *)
(* without its run-log directory, every external command, sub-task or      *)
(* build step, is launched with the directory existing.                    *)
(***************************************************************************)
C18_LaunchedWithLogDir ==
    /\ \A k \in 1..Len(calls) : calls[k].dir_exists
    /\ \A k \in 1..Len(build_calls) : build_calls[k].dir_exists

(***************************************************************************)
(* C17: the execution summary is append-only during a run: every step      *)
(* leaves each phase's entry unchanged or adds exactly one descriptor at   *)
(* its end, and in every state each entry is a prefix of the phase's       *)
(* configured sub-task list rendered as descriptors.                       *)
(***************************************************************************)
IsPrefix(s, t) == Len(s) <= Len(t) /\ \A k \in 1..Len(s) : s[k] = t[k]

ConfiguredDescriptors ==
    [p \in Phases |->
        CASE p = "extract"   -> <<"source-files", "config-files", "data-files", "metadata">>
          [] p = "validate"  -> <<"source-files", "config-files", "data-files">>
          [] p = "analyze"   -> <<"dependencies", "patterns", "metrics", "quality">>
          [] p = "transform" -> <<<<"source-files", "->", "target-format">>,
                                  <<"config-files", "->", "target-config">>,
                                  <<"data-files", "->", "target-schema">>>>
          [] p = "build"     -> <<"clean", "build", "install">>]

GrowsByOneAtEnd(old, new) ==
    /\ Len(new) = Len(old) + 1
    /\ SubSeq(new, 1, Len(old)) = old

C17_SummaryAppendOnly ==
    /\ [](\A p \in Phases : IsPrefix(execution_summary[p], ConfiguredDescriptors[p]))
    /\ [][\A p \in Phases :
             \/ execution_summary'[p] = execution_summary[p]
             \/ GrowsByOneAtEnd(execution_summary[p], execution_summary'[p])]_vars

C17_Witness ==
    /\ execution_summary["extract"] = file_types
    /\ Len(execution_summary["validate"]) = 3
    /\ Len(execution_summary["transform"]) = 2
    /\ pc = "exited"

(***************************************************************************)
(* C19: the metrics of the build phase satisfy successful_transforms <=    *)
(* total_artifacts and copied_artifacts <= total_artifacts, both rates lie *)
(* between 0 and 100, and successful_transforms > 0 implies                *)
(* total_artifacts > 0, whatever the transformation log and source tree.   *)
(***************************************************************************)
WithinPercent(r) == 0 <= r.num /\ r.num <= 100 * r.den

C19_CountsBoundedByTotal ==
    metrics # <<>> =>
        LET m == metrics[1] IN
        /\ m.successful_transforms <= m.total_artifacts
        /\ m.copied_artifacts <= m.total_artifacts
        /\ WithinPercent(m.transform_success_rate)
        /\ WithinPercent(m.build_success_rate)
        /\ m.successful_transforms > 0 => m.total_artifacts > 0

(***************************************************************************)
(* C20: in every run, whatever mode is selected, each phase is entered at  *)
(* most once and the phases entered follow the order extract, validate,    *)
(* analyze, transform, build; build is entered only after every transform  *)
(* sub-task of the run returned zero; a mode other than 1, 2 or 3 enters   *)
(* no phase.                                                               *)
(***************************************************************************)
PhaseOrder == <<"extract", "validate", "analyze", "transform", "build">>
Position(p) == CHOOSE k \in 1..Len(PhaseOrder) : PhaseOrder[k] = p

C20_PhasesOnceInOrder ==
    /\ \A i, j \in 1..Len(entered) :
          i < j => Position(entered[i]) < Position(entered[j])
    /\ Entered("build") =>
          /\ Len(CallsOf("transform")) = 3
          /\ \A k \in 1..3 : CallsOf("transform")[k].rc = 0
    /\ mode \notin {"", "1", "2", "3"} => entered = <<>>

C20_Witness ==
    /\ mode = "2"
    /\ entered = <<"extract", "validate", "transform", "build">>
    /\ exited

====
